---- MODULE Spec2Model ----
(***************************************************************************)
(* Model of plugins/static-analysis/skills/semgrep/scripts/merge_sarif.py: *)
(* the SARIF merge command (main), the capability probe                    *)
(* (has_sarif_multitool), the external merge (merge_with_multitool) and    *)
(* the built-in merger (merge_sarif_pure_python).                          *)
(*                                                                         *)
(* JSON objects are functions from key strings to values, so that a        *)
(* missing key is a key outside DOMAIN and dict.get(key, default) is Get.  *)
(* JSON arrays are sequences.  A Python Optional is a sequence of length   *)
(* at most one (<<>> is None).                                             *)
(***************************************************************************)
EXTENDS Integers, Sequences, FiniteSets, TLC

VARIABLES
    pc,           \* position in main
    argc,         \* len(sys.argv)
    is_dir,       \* raw_dir.is_dir()
    raw_dir,      \* the *.sarif files of raw_dir: file name -> content
    sarif_files,  \* the list of paths handed to the mergers
    parent_made,  \* output_file.parent.mkdir(...) has run
    probe,        \* what happened in has_sarif_multitool
    mt_outcome,   \* what happened in merge_with_multitool's try block
    tmp_file,     \* the NamedTemporaryFile: "none", "exists", "removed"
    mt_return,    \* the value of merge_with_multitool's return statement
    merged,       \* main's merged: <<>> (None) or <<document>>
    merged_by,    \* who produced merged: "none", "multitool", "python"
    skipped,      \* skipped_files of the built-in merger (reported on stderr)
    exc,          \* the exception that left main uncaught, or "None"
    output_file,  \* every document written to output_file, in order
    rc,           \* main's return value, -1 while it has not returned
    \* validate_plugin_metadata.py
    vpc,              \* position in the validator's main
    repo_root,        \* the repository the validator reads
    plugins_to_check, \* the names scan_plugins_directory returned
    errors,           \* the list validate_plugins returned
    vrc               \* the validator's return value, -1 while it has not returned

\* the state of merge_sarif.py and the state of validate_plugin_metadata.py
mvars == <<pc, argc, is_dir, raw_dir, sarif_files, parent_made, probe, mt_outcome,
           mt_return, tmp_file, merged, merged_by, skipped, exc, output_file, rc>>
vvars == <<vpc, repo_root, plugins_to_check, errors, vrc>>

vars == <<mvars, vvars>>

(***************************************************************************)
(* Bounds                                                                  *)
(***************************************************************************)
\* The largest number of *.sarif files in the input directory.
MaxFiles == 2

(***************************************************************************)
(* JSON helpers                                                            *)
(***************************************************************************)
\* {} : the object with no key.
EmptyObj == [k \in {} |-> 0]

\* dict.get(k, d)
Get(o, k, d) == IF k \in DOMAIN o THEN o[k] ELSE d

\* o[k] = v on a dict (adds the key when it is missing)
SetKey(o, k, v) == [x \in (DOMAIN o) \cup {k} |-> IF x = k THEN v ELSE o[x]]

\* the concatenation of a list of lists
RECURSIVE Concat(_)
Concat(seqs) == IF seqs = <<>> THEN <<>> ELSE Head(seqs) \o Concat(Tail(seqs))

\* bool(x) of a dict
TruthyObj(o) == DOMAIN o # {}

(***************************************************************************)
(* Input documents.  Findings, rule definitions, tool descriptors and runs *)
(* are drawn from small pools that hold every shape the merger's code      *)
(* distinguishes: a present, an empty and a missing ruleId; no, one and    *)
(* two locations; a location without physicalLocation; two findings with   *)
(* one dedup key and different payloads; rule definitions that share an    *)
(* identifier, and ones with an empty or a missing identifier; a run with  *)
(* no tool, an empty tool, a tool without driver, a driver without rules.  *)
(***************************************************************************)
Loc(uri, start_line) ==
    [physicalLocation |-> [artifactLocation |-> [uri |-> uri],
                           region |-> [startLine |-> start_line]]]

\* a location that has no physicalLocation
LocNoPhys == [message |-> "here"]

fA1 == [ruleId |-> "r1", locations |-> <<Loc("a.py", 1)>>, message |-> "m1"]
\* the key of fA1 (its first location), another payload, a second location
fA2 == [ruleId |-> "r1", locations |-> <<Loc("a.py", 1), Loc("b.py", 2)>>,
        message |-> "m2"]
fB  == [ruleId |-> "r1", locations |-> <<Loc("b.py", 2)>>, message |-> "m1"]
fC  == [ruleId |-> "r2", locations |-> <<Loc("a.py", 1)>>, message |-> "m1"]
\* no ruleId, no locations: the key ("", "", 0)
fN1 == [message |-> "m1"]
\* an empty ruleId and a location without physicalLocation: the key ("", "", 0)
fN2 == [ruleId |-> "", locations |-> <<LocNoPhys>>, message |-> "m2"]

ruleR1x == [id |-> "r1", name |-> "x"]
ruleR1y == [id |-> "r1", name |-> "y"]
ruleR2  == [id |-> "r2", name |-> "x"]
ruleE   == [id |-> "", name |-> "x"]
ruleN   == [name |-> "y"]

toolX        == [driver |-> [name |-> "semgrep", rules |-> <<ruleR1x, ruleE>>]]
toolY        == [driver |-> [name |-> "other", rules |-> <<ruleN, ruleR2, ruleR1y>>]]
toolNoRules  == [driver |-> [name |-> "semgrep"]]
toolNoDriver == [extensions |-> <<>>]

runX        == [tool |-> toolX, results |-> <<fA1, fN1, fB>>]
runY        == [tool |-> toolY, results |-> <<fN2, fA2, fC>>]
runNoTool   == [results |-> <<fB, fA2>>]
runNoDriver == [tool |-> toolNoDriver, results |-> <<fC>>]
runEmpty    == [tool |-> EmptyObj]
runRules    == [tool |-> toolY, results |-> <<>>]
runNoRules  == [tool |-> toolNoRules, results |-> <<fN2>>]

RunPool == {runX, runY, runNoTool, runNoDriver, runEmpty}

Doc(runs) == [version |-> "2.1.0", runs |-> runs]

\* a document without "runs"
DocNoRuns == [version |-> "2.1.0"]

\* What json.loads(sarif_file.read_text()) gives for a file: a document, or
\* JSONDecodeError.
JsonFile(data) == [kind |-> "json", data |-> data]
CorruptFile == [kind |-> "json_error"]

\* The file contents of the built-in merger's own specification.
MergeContents ==
    {CorruptFile, JsonFile(DocNoRuns), JsonFile(Doc(<<>>))}
    \cup {JsonFile(Doc(<<r>>)) : r \in RunPool}
    \cup {JsonFile(Doc(<<r, s>>)) : r, s \in RunPool}

\* The file contents of the command's specification.
MainContents ==
    {CorruptFile, JsonFile(DocNoRuns), JsonFile(Doc(<<runEmpty, runNoTool>>)),
     JsonFile(Doc(<<runX>>)), JsonFile(Doc(<<runNoTool, runY>>)),
     JsonFile(Doc(<<runRules>>)), JsonFile(Doc(<<runNoDriver>>)),
     JsonFile(Doc(<<runNoRules, runX>>))}

\* File names, by their rank in the order of sorted().
FileNames == 1..MaxFiles

\* The directories: any set of names, each with a content.
Directories(contents) ==
    UNION {[names -> contents] : names \in SUBSET FileNames}

\* The lists of the paths of a directory, in any order.
PathLists(dir) ==
    LET n == Cardinality(DOMAIN dir)
    IN {s \in [1..n -> DOMAIN dir] : \A i, j \in 1..n : s[i] = s[j] => i = j}

\* sorted(paths)
Sorted(paths) == SortSeq(paths, LAMBDA a, b : a < b)

(***************************************************************************)
(* merge_sarif_pure_python                                                 *)
(***************************************************************************)
\* rule.get("id", "")
RuleId(rule) == Get(rule, "id", "")

\* rule_id in seen_rules (a dict keyed by rule id, kept here as the list of
\* its values in insertion order)
InSeenRules(rule_id, seen_rules) ==
    \E i \in 1..Len(seen_rules) : RuleId(seen_rules[i]) = rule_id

\* a faulty variant: a later definition of a seen identifier is kept too
RuleIsNew_NoFirstWins(rule_id, seen_rules) == rule_id # ""

\* if rule_id and rule_id not in seen_rules
RuleIsNew(rule_id, seen_rules) ==
    rule_id # "" /\ ~InSeenRules(rule_id, seen_rules)

\* for rule in driver.get("rules", []): ...
RECURSIVE AddRules(_, _)
AddRules(seen_rules, rules) ==
    IF rules = <<>> THEN seen_rules
    ELSE AddRules(IF RuleIsNew(RuleId(Head(rules)), seen_rules)
                    THEN Append(seen_rules, Head(rules))
                    ELSE seen_rules,
                  Tail(rules))

\* dedup_key = (rule_id, uri, start_line)
DedupKey(result) ==
    LET rule_id == Get(result, "ruleId", "")
        locations == Get(result, "locations", <<>>)
        phys == Get(locations[1], "physicalLocation", EmptyObj)
        uri == IF locations # <<>>
                 THEN Get(Get(phys, "artifactLocation", EmptyObj), "uri", "")
                 ELSE ""
        start_line == IF locations # <<>>
                        THEN Get(Get(phys, "region", EmptyObj), "startLine", 0)
                        ELSE 0
    IN <<rule_id, uri, start_line>>

\* a faulty variant: the membership test is lost, every finding is kept
ResultIsNew_NoDedup(dedup_key, seen_results) == TRUE

\* if dedup_key in seen_results: continue
ResultIsNew(dedup_key, seen_results) == dedup_key \notin seen_results

\* a faulty variant: the finding is put in front
KeepResult_Prepend(all_results, result) == <<result>> \o all_results

\* all_results.append(result)
KeepResult(all_results, result) == Append(all_results, result)

\* for result in run.get("results", []): ...
RECURSIVE AddResults(_, _)
AddResults(acc, results) ==
    IF results = <<>> THEN acc
    ELSE LET result == Head(results)
             dedup_key == DedupKey(result)
         IN AddResults(
                IF ResultIsNew(dedup_key, acc.seen_results)
                  THEN [acc EXCEPT !.seen_results = @ \cup {dedup_key},
                                   !.all_results = KeepResult(@, result)]
                  ELSE acc,
                Tail(results))

\* if tool_info is None and run.get("tool"): tool_info = run["tool"]
CaptureTool(tool_info, run) ==
    IF tool_info = <<>> /\ TruthyObj(Get(run, "tool", EmptyObj))
      THEN <<run["tool"]>>
      ELSE tool_info

\* the body of: for run in data.get("runs", [])
ProcessRun(acc, run) ==
    LET driver == Get(Get(run, "tool", EmptyObj), "driver", EmptyObj)
        acc1 == [acc EXCEPT !.tool_info = CaptureTool(@, run),
                            !.seen_rules = AddRules(@, Get(driver, "rules", <<>>))]
    IN AddResults(acc1, Get(run, "results", <<>>))

RECURSIVE ProcessRuns(_, _)
ProcessRuns(acc, runs) ==
    IF runs = <<>> THEN acc
    ELSE ProcessRuns(ProcessRun(acc, Head(runs)), Tail(runs))

\* the body of: for sarif_file in sorted(sarif_files)
ProcessFile(acc, sarif_file, content) ==
    IF content.kind = "json_error"
      THEN [acc EXCEPT !.skipped_files = Append(@, sarif_file)]
      ELSE ProcessRuns(acc, Get(content.data, "runs", <<>>))

RECURSIVE ProcessFiles(_, _, _)
ProcessFiles(acc, files, dir) ==
    IF files = <<>> THEN acc
    ELSE ProcessFiles(ProcessFile(acc, Head(files), dir[Head(files)]),
                      Tail(files), dir)

\* a faulty variant: the files are read in the caller's order
ProcessingOrder_Unsorted(files) == files

\* the order in which the merger reads its files
ProcessingOrder(files) == Sorted(files)

\* the accumulators before the loop
EmptyAcc ==
    [seen_rules |-> <<>>, all_results |-> <<>>, seen_results |-> {},
     tool_info |-> <<>>, skipped_files |-> <<>>]

\* merged before the loop
EmptyMerged ==
    SetKey([version |-> "2.1.0", runs |-> <<>>],
           "$schema", "https://json.schemastore.org/sarif-2.1.0.json")

\* {"driver": {"name": "semgrep", "rules": []}}
PlaceholderTool == [driver |-> [name |-> "semgrep", rules |-> <<>>]]

\* tool_info or {...}
ToolOrPlaceholder(tool_info) ==
    IF tool_info # <<>> THEN tool_info[1] ELSE PlaceholderTool

\* a faulty variant: the test of all_results is lost, a run is emitted every time
EmitRun_Always(acc) ==
    LET tool == ToolOrPlaceholder(acc.tool_info)
    IN IF "driver" \notin DOMAIN tool
         THEN [raised |-> "KeyError", merged |-> EmptyMerged]
       ELSE [raised |-> "None",
             merged |->
               SetKey(EmptyMerged, "runs",
                      <<[tool |-> SetKey(tool, "driver",
                                         SetKey(tool["driver"], "rules", acc.seen_rules)),
                         results |-> acc.all_results]>>)]

\* if all_results: build merged_run and append it.  merged_run["tool"]["driver"]
\* raises KeyError when the captured tool has no "driver".
EmitRun(acc) ==
    LET tool == ToolOrPlaceholder(acc.tool_info)
    IN IF acc.all_results = <<>>
         THEN [raised |-> "None", merged |-> EmptyMerged]
       ELSE IF "driver" \notin DOMAIN tool
         THEN [raised |-> "KeyError", merged |-> EmptyMerged]
       ELSE [raised |-> "None",
             merged |->
               SetKey(EmptyMerged, "runs",
                      <<[tool |-> SetKey(tool, "driver",
                                         SetKey(tool["driver"], "rules", acc.seen_rules)),
                         results |-> acc.all_results]>>)]

\* merge_sarif_pure_python(sarif_files), reading the files of dir: the exception
\* it raises ("None": it returns), the document it returns, the files it skipped
MergeSarifPurePython(files, dir) ==
    LET acc == ProcessFiles(EmptyAcc, ProcessingOrder(files), dir)
        out == EmitRun(acc)
    IN [raised |-> out.raised, merged |-> out.merged, skipped |-> acc.skipped_files]

(***************************************************************************)
(* has_sarif_multitool                                                     *)
(***************************************************************************)
\* What the probe can meet: shutil.which("npx") finds nothing; the version
\* query times out, cannot be started (FileNotFoundError, another OSError),
\* exits non-zero, or exits 0.
ProbeOutcomes == {"no_npx", "timeout", "file_not_found", "os_error", "nonzero", "exit0"}

\* the value has_sarif_multitool returns
HasSarifMultitool(outcome) == outcome = "exit0"

(***************************************************************************)
(* merge_with_multitool                                                    *)
(***************************************************************************)
\* What subprocess.run(cmd, timeout=120) can do: raise TimeoutExpired,
\* FileNotFoundError, another OSError, an exception of a class no handler
\* names, or return with a zero or a non-zero exit status.
RunOutcomes == {"timeout", "file_not_found", "os_error", "other_exception",
                "nonzero", "exit0"}

\* What json.loads(tmp_path.read_text()) can do: the file is gone or cannot be
\* read (FileNotFoundError, OSError), its text is not JSON (JSONDecodeError),
\* an exception of a class no handler names, or a value.
ReadOutcomes == {"unreadable", "invalid_json", "other_exception", "value"}

\* The values the external tool's output file can hold: JSON null (None), an
\* empty object, a document with no run, a document with one run.
ExternalValues ==
    {<<>>, <<EmptyObj>>, <<Doc(<<>>)>>, <<Doc(<<[tool |-> toolX, results |-> <<fA1, fA2>>]>>)>>}

\* the except clauses of merge_with_multitool: the outcomes they turn into
\* "return None"
MultitoolHandles(outcome) ==
    outcome \in {"timeout", "invalid_json", "file_not_found", "os_error", "unreadable"}

(***************************************************************************)
(* main                                                                    *)
(***************************************************************************)
\* validate_plugin_metadata.py is not running
ValidatorIdle ==
    /\ vpc = "idle"
    /\ repo_root = <<>>
    /\ plugins_to_check = {}
    /\ errors = <<>>
    /\ vrc = -1

\* len(sys.argv) of an invocation
ArgCounts == {2, 3, 4}

Init ==
    /\ pc = "args"
    /\ argc = 0
    /\ is_dir = FALSE
    /\ raw_dir = EmptyObj
    /\ sarif_files = <<>>
    /\ parent_made = FALSE
    /\ probe = "none"
    /\ mt_outcome = "none"
    /\ mt_return = <<>>
    /\ tmp_file = "none"
    /\ merged = <<>>
    /\ merged_by = "none"
    /\ skipped = <<>>
    /\ exc = "None"
    /\ output_file = <<>>
    /\ rc = -1
    /\ ValidatorIdle

\* if len(sys.argv) != 3: return 1
CheckArgs ==
    /\ pc = "args"
    /\ \E n \in ArgCounts :
         /\ argc' = n
         /\ IF n # 3 THEN pc' = "done" /\ rc' = 1
                     ELSE pc' = "is_dir" /\ rc' = rc
    /\ UNCHANGED <<is_dir, raw_dir, sarif_files, parent_made, probe, mt_outcome,
                   mt_return, tmp_file, merged, merged_by, skipped, exc, output_file>>
    /\ UNCHANGED vvars

\* if not raw_dir.is_dir(): return 1
CheckDir ==
    /\ pc = "is_dir"
    /\ \E d \in BOOLEAN :
         /\ is_dir' = d
         /\ IF ~d THEN pc' = "done" /\ rc' = 1
                  ELSE pc' = "glob" /\ rc' = rc
    /\ UNCHANGED <<argc, raw_dir, sarif_files, parent_made, probe, mt_outcome,
                   mt_return, tmp_file, merged, merged_by, skipped, exc, output_file>>
    /\ UNCHANGED vvars

\* a faulty variant: an empty list is not told apart
NothingToMerge_Never(files) == FALSE

\* if not sarif_files
NothingToMerge(files) == files = <<>>

\* sarif_files = sorted(raw_dir.glob("*.sarif")); if not sarif_files: return 1
Glob ==
    /\ pc = "glob"
    /\ \E dir \in Directories(MainContents) : \E listing \in PathLists(dir) :
         /\ raw_dir' = dir
         /\ sarif_files' = Sorted(listing)
         /\ IF NothingToMerge(Sorted(listing)) THEN pc' = "done" /\ rc' = 1
                              ELSE pc' = "mkdir" /\ rc' = rc
    /\ UNCHANGED <<argc, is_dir, parent_made, probe, mt_outcome, mt_return,
                   tmp_file, merged, merged_by, skipped, exc, output_file>>
    /\ UNCHANGED vvars

\* output_file.parent.mkdir(parents=True, exist_ok=True)
MakeParent ==
    /\ pc = "mkdir"
    /\ parent_made' = TRUE
    /\ pc' = "probe"
    /\ UNCHANGED <<argc, is_dir, raw_dir, sarif_files, probe, mt_outcome, mt_return,
                   tmp_file, merged, merged_by, skipped, exc, output_file, rc>>
    /\ UNCHANGED vvars

\* if has_sarif_multitool(): ...
Probe ==
    /\ pc = "probe"
    /\ \E o \in ProbeOutcomes :
         /\ probe' = o
         /\ pc' = IF HasSarifMultitool(o) THEN "mt_create" ELSE "select"
    /\ UNCHANGED <<argc, is_dir, raw_dir, sarif_files, parent_made, mt_outcome,
                   mt_return, tmp_file, merged, merged_by, skipped, exc, output_file, rc>>
    /\ UNCHANGED vvars

\* merge_with_multitool: if not sarif_files: return None; then the
\* NamedTemporaryFile(delete=False) block
MtCreate ==
    /\ pc = "mt_create"
    /\ IF sarif_files = <<>>
         THEN pc' = "select" /\ tmp_file' = tmp_file
         ELSE pc' = "mt_run" /\ tmp_file' = "exists"
    /\ UNCHANGED <<argc, is_dir, raw_dir, sarif_files, parent_made, probe, mt_outcome,
                   mt_return, merged, merged_by, skipped, exc, output_file, rc>>
    /\ UNCHANGED vvars

\* result = subprocess.run(cmd, capture_output=True, timeout=120);
\* if result.returncode != 0: return None
MtRun ==
    /\ pc = "mt_run"
    /\ \E o \in RunOutcomes :
         IF o = "exit0"
           THEN pc' = "mt_read" /\ mt_outcome' = mt_outcome
           ELSE pc' = "mt_finally" /\ mt_outcome' = o
    /\ UNCHANGED <<argc, is_dir, raw_dir, sarif_files, parent_made, probe, mt_return,
                   tmp_file, merged, merged_by, skipped, exc, output_file, rc>>
    /\ UNCHANGED vvars

\* return json.loads(tmp_path.read_text())
MtRead ==
    /\ pc = "mt_read"
    /\ \E o \in ReadOutcomes :
         /\ mt_outcome' = o
         /\ IF o = "value"
              THEN \E v \in ExternalValues : mt_return' = v
              ELSE mt_return' = mt_return
    /\ pc' = "mt_finally"
    /\ UNCHANGED <<argc, is_dir, raw_dir, sarif_files, parent_made, probe, tmp_file,
                   merged, merged_by, skipped, exc, output_file, rc>>
    /\ UNCHANGED vvars

\* a faulty variant: the finally clause removes nothing
Unlink_Missing(file) == file

\* finally: tmp_path.unlink(missing_ok=True)
Unlink(file) == "removed"

\* The finally clause, and then what leaves the function: the value of the
\* return statement, None from a handler or after a non-zero exit, or the
\* exception no handler names (main does not catch it).
MtFinally ==
    /\ pc = "mt_finally"
    /\ tmp_file' = Unlink(tmp_file)
    /\ IF mt_outcome = "value"
         THEN /\ merged' = mt_return
              /\ merged_by' = IF mt_return # <<>> THEN "multitool" ELSE merged_by
              /\ pc' = "select" /\ exc' = exc
       ELSE IF MultitoolHandles(mt_outcome) \/ mt_outcome = "nonzero"
         THEN /\ pc' = "select"
              /\ UNCHANGED <<merged, merged_by, exc>>
       ELSE /\ pc' = "done" /\ exc' = "Exception"
            /\ UNCHANGED <<merged, merged_by>>
    /\ UNCHANGED <<argc, is_dir, raw_dir, sarif_files, parent_made, probe, mt_outcome,
                   mt_return, skipped, output_file, rc>>
    /\ UNCHANGED vvars

\* if merged is None: ... else straight to the write
Select ==
    /\ pc = "select"
    /\ pc' = IF merged = <<>> THEN "python" ELSE "write"
    /\ UNCHANGED <<argc, is_dir, raw_dir, sarif_files, parent_made, probe, mt_outcome,
                   mt_return, tmp_file, merged, merged_by, skipped, exc, output_file, rc>>
    /\ UNCHANGED vvars

\* merged = merge_sarif_pure_python(sarif_files)
PurePythonMerge ==
    /\ pc = "python"
    /\ LET r == MergeSarifPurePython(sarif_files, raw_dir)
       IN IF r.raised = "None"
            THEN /\ merged' = <<r.merged>>
                 /\ merged_by' = "python"
                 /\ skipped' = r.skipped
                 /\ pc' = "write" /\ exc' = exc
            ELSE /\ exc' = r.raised
                 /\ pc' = "done"
                 /\ UNCHANGED <<merged, merged_by, skipped>>
    /\ UNCHANGED <<argc, is_dir, raw_dir, sarif_files, parent_made, probe, mt_outcome,
                   mt_return, tmp_file, output_file, rc>>
    /\ UNCHANGED vvars

\* output_file.write_text(json.dumps(merged, indent=2))
WriteOutput ==
    /\ pc = "write"
    /\ output_file' = Append(output_file, merged[1])
    /\ pc' = "return"
    /\ UNCHANGED <<argc, is_dir, raw_dir, sarif_files, parent_made, probe, mt_outcome,
                   mt_return, tmp_file, merged, merged_by, skipped, exc, rc>>
    /\ UNCHANGED vvars

\* return 0
Return0 ==
    /\ pc = "return"
    /\ rc' = 0
    /\ pc' = "done"
    /\ UNCHANGED <<argc, is_dir, raw_dir, sarif_files, parent_made, probe, mt_outcome,
                   mt_return, tmp_file, merged, merged_by, skipped, exc, output_file>>
    /\ UNCHANGED vvars

Next ==
    \/ CheckArgs
    \/ CheckDir
    \/ Glob
    \/ MakeParent
    \/ Probe
    \/ MtCreate
    \/ MtRun
    \/ MtRead
    \/ MtFinally
    \/ Select
    \/ PurePythonMerge
    \/ WriteOutput
    \/ Return0

\* The command: one invocation of main.
Spec == Init /\ [][Next]_vars

(***************************************************************************)
(* The built-in merger on its own: merge_sarif_pure_python called with any *)
(* list of paths, in any order.                                            *)
(***************************************************************************)
InitMerge ==
    /\ pc = "python"
    /\ argc = 3
    /\ is_dir = TRUE
    /\ raw_dir \in Directories(MergeContents)
    /\ sarif_files \in PathLists(raw_dir)
    /\ parent_made = TRUE
    /\ probe = "no_npx"
    /\ mt_outcome = "none"
    /\ mt_return = <<>>
    /\ tmp_file = "none"
    /\ merged = <<>>
    /\ merged_by = "none"
    /\ skipped = <<>>
    /\ exc = "None"
    /\ output_file = <<>>
    /\ rc = -1
    /\ ValidatorIdle

NextMerge == PurePythonMerge

SpecMerge == InitMerge /\ [][NextMerge]_vars

(***************************************************************************)
(* What the claims speak of: the inputs in processing order, read off the  *)
(* directory alone, and the parts of the merged document.                  *)
(***************************************************************************)
\* the names of a directory, smallest first
NamesInOrder(dir) ==
    [i \in 1..Cardinality(DOMAIN dir) |->
        CHOOSE x \in DOMAIN dir : Cardinality({y \in DOMAIN dir : y < x}) = i - 1]

\* the run documents of one file (none when it does not parse)
RunsOfFile(content) ==
    IF content.kind = "json" THEN Get(content.data, "runs", <<>>) ELSE <<>>

FindingsOfRuns(runs) ==
    Concat([i \in 1..Len(runs) |-> Get(runs[i], "results", <<>>)])

RulesOfRuns(runs) ==
    Concat([i \in 1..Len(runs) |->
              Get(Get(Get(runs[i], "tool", EmptyObj), "driver", EmptyObj), "rules", <<>>)])

\* every run, finding and rule definition of the parsed files, in name order
InputRuns(dir) ==
    LET names == NamesInOrder(dir)
    IN Concat([i \in 1..Len(names) |-> RunsOfFile(dir[names[i]])])

InputFindings(dir) == FindingsOfRuns(InputRuns(dir))
InputRules(dir) == RulesOfRuns(InputRuns(dir))

\* the names of the files that do not parse, in name order
CorruptNames(dir) == SelectSeq(NamesInOrder(dir), LAMBDA n : dir[n].kind = "json_error")

\* the dedup key of a finding: (ruleId or "", URI of the first location or "",
\* startLine of the first location or 0)
KeyOf(finding) ==
    LET first == finding.locations[1]
        has_loc == "locations" \in DOMAIN finding /\ finding.locations # <<>>
        has_phys == has_loc /\ "physicalLocation" \in DOMAIN first
        phys == first.physicalLocation
    IN << IF "ruleId" \in DOMAIN finding THEN finding.ruleId ELSE "",
          IF has_phys /\ "artifactLocation" \in DOMAIN phys
                      /\ "uri" \in DOMAIN phys.artifactLocation
            THEN phys.artifactLocation.uri ELSE "",
          IF has_phys /\ "region" \in DOMAIN phys
                      /\ "startLine" \in DOMAIN phys.region
            THEN phys.region.startLine ELSE 0 >>

Keys(findings) == {KeyOf(findings[i]) : i \in 1..Len(findings)}

\* the index of the first finding of the list that has the key
FirstWithKey(findings, key) ==
    CHOOSE i \in 1..Len(findings) :
        /\ KeyOf(findings[i]) = key
        /\ \A j \in 1..(i - 1) : KeyOf(findings[j]) # key

\* the index of the first rule definition of the list that has the identifier
FirstWithId(rules, id) ==
    CHOOSE i \in 1..Len(rules) :
        /\ "id" \in DOMAIN rules[i] /\ rules[i].id = id
        /\ \A j \in 1..(i - 1) : ~("id" \in DOMAIN rules[j] /\ rules[j].id = id)

\* the identifiers that occur in a list of rule definitions
Ids(rules) == {rules[i].id : i \in {j \in 1..Len(rules) : "id" \in DOMAIN rules[j]}}

\* the built-in merger has returned its document to the caller
Returned == merged_by = "python"

\* the built-in merger was called and is over: it returned or it raised
MergerOver == merged_by = "python" \/ exc = "KeyError"

\* the runs of the merged document, and the findings and rules it holds
MergedRuns == Get(merged[1], "runs", <<>>)
OutFindings == FindingsOfRuns(MergedRuns)
OutRules == RulesOfRuns(MergedRuns)

(***************************************************************************)
(* Claims                                                                  *)
(***************************************************************************)

\* C1: when the built-in merger returns, its finding list holds exactly the
\* dedup keys of the findings of the parsed inputs, no key twice, and the
\* finding kept for a key is the first one with that key in processing order,
\* equal to it in every field.
C1_DedupExact ==
    Returned =>
        LET inp == InputFindings(raw_dir)
            out == OutFindings
        IN /\ Keys(out) = Keys(inp)
           /\ \A i, j \in 1..Len(out) : KeyOf(out[i]) = KeyOf(out[j]) => i = j
           /\ \A i \in 1..Len(out) : out[i] = inp[FirstWithKey(inp, KeyOf(out[i]))]

\* C1 witness: the merger returned on inputs in which two findings of different
\* files share a key and differ in their payload, one of them with a missing
\* ruleId and no location and the other with an empty ruleId.
C1_Witness ==
    /\ Returned
    /\ Cardinality(DOMAIN raw_dir) >= 2
    /\ LET inp == InputFindings(raw_dir)
       IN /\ \E i, j \in 1..Len(inp) :
                i < j /\ inp[i] = fN1 /\ inp[j] = fN2
          /\ \E i, j \in 1..Len(inp) :
                i < j /\ inp[i] = fA2 /\ inp[j] = fA1
    /\ Len(OutFindings) >= 3

\* C2: when the built-in merger returns, the findings it kept stand in the
\* order of their first occurrence in the inputs read in name order (files by
\* name whatever the order of the list passed in, then the runs of a file, then
\* the results of a run).  So the findings kept from a file A precede those
\* kept from a later file B, and those kept from one file keep their order.
C2_OrderPreserved ==
    Returned =>
        LET inp == InputFindings(raw_dir)
            out == OutFindings
        IN \A i, j \in 1..Len(out) :
              i < j => FirstWithKey(inp, KeyOf(out[i])) < FirstWithKey(inp, KeyOf(out[j]))

\* C2 witness: the list was passed in another order than name order, the two
\* files share no key, both contribute findings and the first has two runs.
C2_Witness ==
    /\ Returned
    /\ Cardinality(DOMAIN raw_dir) = 2
    /\ sarif_files # NamesInOrder(raw_dir)
    /\ LET names == NamesInOrder(raw_dir)
           a == FindingsOfRuns(RunsOfFile(raw_dir[names[1]]))
           b == FindingsOfRuns(RunsOfFile(raw_dir[names[2]]))
       IN /\ Keys(a) \cap Keys(b) = {}
          /\ Len(RunsOfFile(raw_dir[names[1]])) = 2
          /\ Len(a) >= 2 /\ Len(b) >= 1
          /\ Len(OutFindings) >= 3

\* C3 as stated: whenever a run is emitted, its rule list holds exactly one
\* definition for every identifier that occurs in a rule list of the parsed
\* inputs, the first one in processing order, whatever the identifier.
C3_EveryIdentifier ==
    (Returned /\ MergedRuns # <<>>) =>
        LET inr == InputRules(raw_dir)
            out == OutRules
        IN \A id \in Ids(inr) :
              /\ Cardinality({i \in 1..Len(out) : RuleId(out[i]) = id}) = 1
              /\ \E i \in 1..Len(out) : out[i] = inr[FirstWithId(inr, id)]

\* C3 amended: whenever a run is emitted, its rule list holds exactly one
\* definition for every non-empty identifier that occurs in a rule list of the
\* parsed inputs, the first one in processing order, and nothing else: a
\* definition whose identifier is empty or missing is dropped.
C3_NonEmptyIdentifier ==
    (Returned /\ MergedRuns # <<>>) =>
        LET inr == InputRules(raw_dir)
            out == OutRules
        IN /\ \A id \in Ids(inr) \ {""} :
                /\ Cardinality({i \in 1..Len(out) : RuleId(out[i]) = id}) = 1
                /\ \E i \in 1..Len(out) : out[i] = inr[FirstWithId(inr, id)]
           /\ \A i \in 1..Len(out) :
                "id" \in DOMAIN out[i] /\ out[i].id \in Ids(inr) \ {""}

\* C3 witness: a run is emitted from inputs where two files define rule r1
\* with different content, and an empty and a missing identifier occur.
C3_Witness ==
    /\ Returned /\ MergedRuns # <<>>
    /\ LET inr == InputRules(raw_dir)
       IN /\ \E i, j \in 1..Len(inr) : i < j /\ inr[i] = ruleR1y /\ inr[j] = ruleR1x
          /\ \E i \in 1..Len(inr) : inr[i] = ruleE
          /\ \E i \in 1..Len(inr) : inr[i] = ruleN
    /\ \E i \in 1..Len(OutRules) : OutRules[i] = ruleR1y

\* C4: the document the built-in merger returns has one run when the parsed
\* inputs hold at least one finding and no run when they hold none, never two
\* or more; and when every input file fails to parse, the command writes a
\* document with no run and returns 0.
C4_RunCount ==
    /\ Returned =>
          Len(MergedRuns) = IF InputFindings(raw_dir) # <<>> THEN 1 ELSE 0
    /\ (pc = "done" /\ MergerOver /\ Len(CorruptNames(raw_dir)) = Len(sarif_files)) =>
          /\ exc = "None" /\ rc = 0
          /\ output_file = <<merged[1]>>
          /\ MergedRuns = <<>>

\* C4 witness: the command has returned after the built-in merger made one run
\* out of two files that hold three runs with findings between them.
C4_Witness ==
    /\ pc = "done" /\ rc = 0 /\ Returned
    /\ Len(sarif_files) = 2
    /\ Len(InputRuns(raw_dir)) >= 3
    /\ \A i \in 1..Len(InputRuns(raw_dir)) :
          Get(InputRuns(raw_dir)[i], "results", <<>>) # <<>>
    /\ Len(MergedRuns) = 1

\* C5: when exactly one input file does not parse and at least one other does,
\* the built-in merger does not raise, records exactly that file as skipped and
\* returns exactly the deduplicated findings of the other files, and the
\* command returns 0.
C5_ParseFailureIsolation ==
    (MergerOver /\ Len(CorruptNames(raw_dir)) = 1 /\ Len(sarif_files) >= 2) =>
        /\ exc = "None"
        /\ skipped = CorruptNames(raw_dir)
        /\ Keys(OutFindings) = Keys(InputFindings(raw_dir))
        /\ Len(OutFindings) = Cardinality(Keys(InputFindings(raw_dir)))
        /\ pc = "done" => rc = 0

\* the strategy is chosen and main is at or past the write step
AtWrite == pc \in {"write", "return"} \/ (pc = "done" /\ rc = 0)

\* the external merge succeeded: the tool exited 0 and left a document
ExternalSucceeded == probe = "exit0" /\ mt_outcome = "value" /\ mt_return # <<>>

\* C6: for every outcome of the probe and every listed outcome of the external
\* merge, main never ends with an uncaught exception, ends only by returning 0
\* once the probe has run, and is at the write step with a document that comes
\* from the external tool exactly when the probe and the external merge both
\* succeeded, and from the built-in merger otherwise.
C6_StrategySelection ==
    mt_outcome # "other_exception" =>
        /\ exc = "None"
        /\ (pc = "done" /\ probe # "none") => rc = 0
        /\ AtWrite =>
              /\ merged # <<>>
              /\ merged_by = IF ExternalSucceeded THEN "multitool" ELSE "python"

\* C7: main returns 1, with nothing written, exactly when the argument count is
\* wrong, the input path is no directory or no *.sarif file is found; the
\* output file is written at most once, with the finished merged document, and
\* main returns 0 only after that write.
C7_ExitAndOutput ==
    /\ Len(output_file) <= 1
    /\ output_file # <<>> =>
          /\ pc \in {"return", "done"}
          /\ merged # <<>> /\ output_file = <<merged[1]>>
          /\ merged_by = "python" =>
                merged[1] = MergeSarifPurePython(sarif_files, raw_dir).merged
    /\ rc = 0 => (pc = "done" /\ Len(output_file) = 1)
    /\ rc = 1 => (pc = "done" /\ output_file = <<>>
                  /\ (argc # 3 \/ ~is_dir \/ sarif_files = <<>>))
    /\ (pc \notin {"args", "is_dir", "glob"}
        /\ (argc # 3 \/ ~is_dir \/ sarif_files = <<>>)) =>
            (pc = "done" /\ rc = 1 /\ output_file = <<>>)

\* C7 witness: main has returned 0 after writing a document with a run.
C7_Witness ==
    /\ pc = "done" /\ rc = 0
    /\ Len(output_file) = 1
    /\ Get(output_file[1], "runs", <<>>) # <<>>
    /\ merged_by = "python"

\* merge_with_multitool is running between the creation of its temporary file
\* and the end of its finally clause
InMultitool == pc \in {"mt_run", "mt_read", "mt_finally"}

\* C8: once merge_with_multitool has created its temporary file, the file is
\* gone whenever the function has been left, by a return or by an exception.
C8_TempFileRemoved ==
    ~InMultitool =>
        /\ tmp_file # "exists"
        /\ mt_outcome # "none" => tmp_file = "removed"

\* C8 witness: the function was left by an exception that no handler names,
\* and the temporary file is removed.
C8_Witness ==
    /\ pc = "done" /\ exc = "Exception"
    /\ mt_outcome = "other_exception"
    /\ tmp_file = "removed"

\* the built-in merger applied to its own document as the only input file
MergedAgain == MergeSarifPurePython(<<1>>, [n \in {1} |-> JsonFile(merged[1])])

\* C9: merging the document the built-in merger returned, as the sole input,
\* returns the same finding list and the same rule list.
C9_Idempotent ==
    Returned =>
        /\ MergedAgain.raised = "None"
        /\ FindingsOfRuns(MergedAgain.merged["runs"]) = OutFindings
        /\ RulesOfRuns(MergedAgain.merged["runs"]) = OutRules
        /\ Len(MergedAgain.merged["runs"]) = Len(MergedRuns)

\* C9 witness: the first merge removed duplicate findings and rule definitions
\* of two files and kept several findings and rules.
C9_Witness ==
    /\ Returned
    /\ Cardinality(DOMAIN raw_dir) = 2
    /\ Len(OutFindings) >= 3 /\ Len(InputFindings(raw_dir)) > Len(OutFindings)
    /\ Len(OutRules) >= 2 /\ Len(InputRules(raw_dir)) > Len(OutRules)

\* a run carries a tool descriptor
CarriesTool(run) == "tool" \in DOMAIN run /\ run.tool # EmptyObj

\* the tool descriptor of the first run that carries one, or the placeholder
FirstTool(runs) ==
    IF \E i \in 1..Len(runs) : CarriesTool(runs[i])
      THEN runs[CHOOSE i \in 1..Len(runs) :
                  /\ CarriesTool(runs[i])
                  /\ \A j \in 1..(i - 1) : ~CarriesTool(runs[j])].tool
      ELSE [driver |-> [name |-> "semgrep", rules |-> <<>>]]

\* C10: whenever the parsed inputs hold a finding, the built-in merger returns
\* a run whose tool descriptor is that of the first run that carries one,
\* whatever its content, or the placeholder, with the rule list of its driver
\* replaced by the deduplicated rules.
C10_ToolDescriptor ==
    (MergerOver /\ InputFindings(raw_dir) # <<>>) =>
        /\ exc = "None"
        /\ Len(MergedRuns) = 1
        /\ LET first == FirstTool(InputRuns(raw_dir))
               tool == MergedRuns[1].tool
           IN /\ DOMAIN tool = DOMAIN first \cup {"driver"}
              /\ \A k \in DOMAIN first \ {"driver"} : tool[k] = first[k]
              /\ \A k \in DOMAIN Get(first, "driver", EmptyObj) \ {"rules"} :
                    tool.driver[k] = first.driver[k]
              /\ tool.driver.rules = OutRules

(***************************************************************************)
(* .github/scripts/validate_plugin_metadata.py                             *)
(*                                                                         *)
(* A repository is a record of four Optionals: plugins (the entries of     *)
(* plugins/ by name, when plugins/ is a directory), marketplace (the       *)
(* document of .claude-plugin/marketplace.json), codeowners and readme     *)
(* (the lines of CODEOWNERS and of README.md).  An error message is a      *)
(* tuple: its text and the values formatted into it.                       *)
(***************************************************************************)
\* The names an entry can have, in the order of sorted().
NameOrder == <<".cache", "alpha", "beta">>
PluginNames == {NameOrder[i] : i \in 1..Len(NameOrder)}

\* sorted(names)
SortedNames(names) == SelectSeq(NameOrder, LAMBDA n : n \in names)

\* p.name.startswith(".")
StartsWithDot(name) == name = ".cache"

\* dict.get(k) with no default: <<>> is None
GetOpt(o, k) == IF k \in DOMAIN o THEN <<o[k]>> ELSE <<>>

\* What .claude-plugin/plugin.json of a plugin directory can be: missing, not
\* JSON, in sync with the directory, or with another name, another version and
\* no description.
JsonMissing == [state |-> "missing"]
JsonInvalid == [state |-> "invalid"]
JsonGood(name) ==
    [state |-> "ok", data |-> [name |-> name, description |-> "d", version |-> "1.0"]]
JsonBad(name) == [state |-> "ok", data |-> [name |-> "other", version |-> "2.0"]]

\* What plugins/ can hold under a name: nothing, a plain file, a directory.
NoEntry == [kind |-> "none"]
PlainFile == [kind |-> "file"]
Dir(json) == [kind |-> "dir", json |-> json]

EntriesOf(name) ==
    IF StartsWithDot(name)
      THEN {NoEntry, Dir(JsonMissing)}
      ELSE {NoEntry, PlainFile, Dir(JsonMissing), Dir(JsonInvalid),
            Dir(JsonGood(name)), Dir(JsonBad(name))}

\* plugins/: not a directory (<<>>), or its entries
PluginsDirs ==
    {<<>>} \cup {<<e>> : e \in {f \in [PluginNames -> UNION {EntriesOf(n) : n \in PluginNames}] :
                                  \A n \in PluginNames : f[n] \in EntriesOf(n)}}

\* the sub-lists of a list, in its order
SubLists(list) ==
    {SelectSeq([i \in 1..Len(list) |-> <<i, list[i]>>], LAMBDA x : x[1] \in keep)
        : keep \in SUBSET (1..Len(list))}
Unindexed(pairs) == [i \in 1..Len(pairs) |-> pairs[i][2]]

\* The entries marketplace.json can list: in sync, out of sync, without name.
EntryGood(name) ==
    [name |-> name, version |-> "1.0", description |-> "d",
     source |-> "./plugins/" \o name]
EntryBad(name) == [name |-> name, version |-> "2.0", description |-> "d"]
EntryNoName == [version |-> "1.0", description |-> "d"]

MarketplaceFiles ==
    {<<>>} \cup
    {<<[plugins |-> Unindexed(l)]>> :
        l \in SubLists(<<EntryGood("alpha"), EntryNoName, EntryBad("beta"), EntryGood("beta")>>)}

\* The lines of CODEOWNERS: "/plugins/NAME/ @owner", "# /plugins/NAME/ @owner"
\* and "plugins/NAME/ @owner".
OwnerLine(name) == [kind |-> "path", name |-> name]
CommentLine(name) == [kind |-> "comment", name |-> name]
RelativeLine(name) == [kind |-> "relative", name |-> name]

CodeownersFiles ==
    {<<>>} \cup
    {<<Unindexed(l)>> :
        l \in SubLists(<<OwnerLine("alpha"), CommentLine("beta"), OwnerLine("beta")>>)}

\* The lines of README.md: "[NAME](plugins/NAME)", "[NAME](./plugins/NAME/)"
\* and "plugins/NAME" outside a link.
LinkLine(name) == [kind |-> "link", name |-> name]
DotLinkLine(name) == [kind |-> "dot_link", name |-> name]
TextLine(name) == [kind |-> "text", name |-> name]

ReadmeFiles ==
    {<<>>} \cup
    {<<Unindexed(l)>> :
        l \in SubLists(<<LinkLine("alpha"), TextLine("beta"), DotLinkLine("beta")>>)}

Repositories ==
    [plugins : PluginsDirs, marketplace : MarketplaceFiles,
     codeowners : CodeownersFiles, readme : ReadmeFiles]

\* (plugins_dir / name).is_dir()
IsPluginDir(repo, name) ==
    repo.plugins # <<>> /\ repo.plugins[1][name].kind = "dir"

\* scan_plugins_directory(plugins_dir)
ScanPluginsDirectory(repo) ==
    IF repo.plugins = <<>> THEN {}
    ELSE {n \in PluginNames : repo.plugins[1][n].kind = "dir" /\ ~StartsWithDot(n)}

\* parse_marketplace(marketplace_path): name -> entry, the last entry of a
\* name winning, entries without a name left out
RECURSIVE EntriesByName(_, _)
EntriesByName(by_name, plugins) ==
    IF plugins = <<>> THEN by_name
    ELSE EntriesByName(IF GetOpt(Head(plugins), "name") \notin {<<>>, <<"">>}
                         THEN SetKey(by_name, Head(plugins)["name"], Head(plugins))
                         ELSE by_name,
                       Tail(plugins))

ParseMarketplace(repo) ==
    IF repo.marketplace = <<>> THEN EmptyObj
    ELSE EntriesByName(EmptyObj, Get(repo.marketplace[1], "plugins", <<>>))

\* the names re.compile(r"^/plugins/([^/]+)/") finds on the lines that are not
\* blank and not comments
ParseCodeowners(repo) ==
    IF repo.codeowners = <<>> THEN {}
    ELSE LET lines == repo.codeowners[1]
         IN {lines[i].name : i \in {j \in 1..Len(lines) : lines[j].kind = "path"}}

\* the names re.compile(r"\[[^\]]+\]\(\.?/?plugins/([^/)]+)") finds
ParseReadme(repo) ==
    IF repo.readme = <<>> THEN {}
    ELSE LET lines == repo.readme[1]
         IN {lines[i].name :
                i \in {j \in 1..Len(lines) : lines[j].kind \in {"link", "dot_link"}}}

\* parse_plugin_json(plugin_path): the data, or <<>> (None)
ParsePluginJson(repo, name) ==
    LET json == repo.plugins[1][name].json
    IN IF json.state = "ok" THEN <<json.data>> ELSE <<>>

\* validate_plugin_json(plugin_data, plugin_path, plugin_name)
ValidatePluginJson(repo, plugin_data, name) ==
    IF repo.plugins[1][name].json.state = "missing"
      THEN << <<"missing .claude-plugin/plugin.json">> >>
    ELSE IF plugin_data = <<>>
      THEN << <<".claude-plugin/plugin.json is invalid JSON">> >>
    ELSE LET data == plugin_data[1]
         IN (IF "name" \notin DOMAIN data
               THEN << <<".claude-plugin/plugin.json missing 'name' field">> >>
             ELSE IF data["name"] # name
               THEN << <<".claude-plugin/plugin.json name doesn't match directory name",
                         data["name"], name>> >>
             ELSE <<>>)
            \o (IF "description" \notin DOMAIN data
                  THEN << <<".claude-plugin/plugin.json missing 'description' field">> >>
                  ELSE <<>>)
            \o (IF "version" \notin DOMAIN data
                  THEN << <<".claude-plugin/plugin.json missing 'version' field">> >>
                  ELSE <<>>)

\* f"./plugins/{plugin_name}"
ExpectedSource(name) == "./plugins/" \o name

\* marketplace_entry.get("source", "")
SourceOf(entry) == Get(entry, "source", "")

\* validate_marketplace_entry(marketplace_plugins, plugin_data, plugin_name)
ValidateMarketplaceEntry(marketplace_plugins, plugin_data, name) ==
    IF name \notin DOMAIN marketplace_plugins
      THEN << <<"not found in .claude-plugin/marketplace.json">> >>
    ELSE IF plugin_data = <<>> THEN <<>>
    ELSE LET data == plugin_data[1]
             entry == marketplace_plugins[name]
         IN (IF GetOpt(data, "name") # GetOpt(entry, "name")
               THEN << <<"name mismatch", GetOpt(data, "name"), GetOpt(entry, "name")>> >>
               ELSE <<>>)
            \o (IF GetOpt(data, "version") # GetOpt(entry, "version")
                  THEN << <<"version mismatch", GetOpt(data, "version"),
                            GetOpt(entry, "version")>> >>
                  ELSE <<>>)
            \o (IF GetOpt(data, "description") # GetOpt(entry, "description")
                  THEN << <<"description mismatch between plugin.json and marketplace.json">> >>
                  ELSE <<>>)
            \o (IF SourceOf(entry) # ExpectedSource(name)
                  THEN << <<"marketplace.json source should be", SourceOf(entry),
                            ExpectedSource(name)>> >>
                  ELSE <<>>)

\* ValidationError(plugin, message) for each message
ErrorsOf(name, messages) ==
    [i \in 1..Len(messages) |-> [plugin |-> name, message |-> messages[i]]]

DeletedInMarketplace == <<"deleted but still in .claude-plugin/marketplace.json">>
DeletedInCodeowners == <<"deleted but still in CODEOWNERS">>
DeletedInReadme == <<"deleted but still in README.md">>

\* the body of: for plugin_name in sorted(plugins_to_check)
ValidateOne(repo, name) ==
    LET marketplace_plugins == ParseMarketplace(repo)
        codeowners_plugins == ParseCodeowners(repo)
        readme_plugins == ParseReadme(repo)
        plugin_data == ParsePluginJson(repo, name)
    IN IF IsPluginDir(repo, name)
         THEN ErrorsOf(name,
                ValidatePluginJson(repo, plugin_data, name)
                \o ValidateMarketplaceEntry(marketplace_plugins, plugin_data, name)
                \o (IF name \notin codeowners_plugins
                      THEN << <<"not found in CODEOWNERS">> >> ELSE <<>>)
                \o (IF name \notin readme_plugins
                      THEN << <<"not found in README.md">> >> ELSE <<>>))
         ELSE ErrorsOf(name,
                (IF name \in DOMAIN marketplace_plugins
                   THEN <<DeletedInMarketplace>> ELSE <<>>)
                \o (IF name \in codeowners_plugins
                      THEN <<DeletedInCodeowners>> ELSE <<>>)
                \o (IF name \in readme_plugins
                      THEN <<DeletedInReadme>> ELSE <<>>))

\* validate_plugins(plugins_to_check, repo_root)
ValidatePlugins(to_check, repo) ==
    LET names == SortedNames(to_check)
    IN Concat([i \in 1..Len(names) |-> ValidateOne(repo, names[i])])

\* if not plugins_to_check
NothingToCheck(names) == names = {}

\* the validator's state before main runs on a repository
InitValidate ==
    /\ vpc = "scan"
    /\ repo_root \in Repositories
    /\ plugins_to_check = {}
    /\ errors = <<>>
    /\ vrc = -1
    /\ pc = "idle" /\ argc = 0 /\ is_dir = FALSE /\ raw_dir = EmptyObj
    /\ sarif_files = <<>> /\ parent_made = FALSE /\ probe = "none"
    /\ mt_outcome = "none" /\ mt_return = <<>> /\ tmp_file = "none"
    /\ merged = <<>> /\ merged_by = "none" /\ skipped = <<>> /\ exc = "None"
    /\ output_file = <<>> /\ rc = -1

\* plugins_to_check = scan_plugins_directory(repo_root / "plugins");
\* if not plugins_to_check: return 0
ScanPlugins ==
    /\ vpc = "scan"
    /\ plugins_to_check' = ScanPluginsDirectory(repo_root)
    /\ IF NothingToCheck(ScanPluginsDirectory(repo_root))
         THEN vpc' = "done" /\ vrc' = 0
         ELSE vpc' = "validate" /\ vrc' = vrc
    /\ UNCHANGED <<repo_root, errors>>
    /\ UNCHANGED mvars

\* errors = validate_plugins(plugins_to_check, repo_root)
RunValidation ==
    /\ vpc = "validate"
    /\ errors' = ValidatePlugins(plugins_to_check, repo_root)
    /\ vpc' = "report"
    /\ UNCHANGED <<repo_root, plugins_to_check, vrc>>
    /\ UNCHANGED mvars

\* if not errors: return 0; ...; return 1
ReportErrors ==
    /\ vpc = "report"
    /\ vrc' = IF errors = <<>> THEN 0 ELSE 1
    /\ vpc' = "done"
    /\ UNCHANGED <<repo_root, plugins_to_check, errors>>
    /\ UNCHANGED mvars

NextValidate ==
    \/ ScanPlugins
    \/ RunValidation
    \/ ReportErrors

\* The validator: one invocation of its main.
SpecValidate == InitValidate /\ [][NextValidate]_vars

\* the names that have an entry in a metadata file
InMarketplace(repo) ==
    IF repo.marketplace = <<>> THEN {}
    ELSE LET plugins == repo.marketplace[1].plugins
         IN {plugins[i].name : i \in {j \in 1..Len(plugins) : "name" \in DOMAIN plugins[j]}}
InCodeowners(repo) ==
    IF repo.codeowners = <<>> THEN {}
    ELSE {repo.codeowners[1][i].name :
            i \in {j \in 1..Len(repo.codeowners[1]) : repo.codeowners[1][j].kind = "path"}}
InReadme(repo) ==
    IF repo.readme = <<>> THEN {}
    ELSE {repo.readme[1][i].name :
            i \in {j \in 1..Len(repo.readme[1]) :
                      repo.readme[1][j].kind \in {"link", "dot_link"}}}

\* the name has no directory under plugins/
NoDirectory(repo, name) ==
    repo.plugins = <<>> \/ repo.plugins[1][name].kind # "dir"

\* the error is in the list main reports
Reported(name, message) ==
    \E i \in 1..Len(errors) : errors[i] = [plugin |-> name, message |-> message]

\* the names of the repository: those with a plugin directory and those with
\* an entry in a metadata file
NamesOfRepository(repo) ==
    {n \in PluginNames : ~NoDirectory(repo, n) /\ ~StartsWithDot(n)}
    \cup InMarketplace(repo) \cup InCodeowners(repo) \cup InReadme(repo)

\* C11: when the validator's main has returned, every name that has an entry
\* in marketplace.json, CODEOWNERS or README.md and no directory under
\* plugins/ is reported with the matching "deleted but still in ..." error and
\* main has returned 1; and main has returned 0 only when validating every
\* name of the repository yields no error.
C11_DeletedReported ==
    vpc = "done" =>
        /\ \A name \in PluginNames :
              NoDirectory(repo_root, name) =>
                  /\ name \in InMarketplace(repo_root) =>
                        (vrc = 1 /\ Reported(name, DeletedInMarketplace))
                  /\ name \in InCodeowners(repo_root) =>
                        (vrc = 1 /\ Reported(name, DeletedInCodeowners))
                  /\ name \in InReadme(repo_root) =>
                        (vrc = 1 /\ Reported(name, DeletedInReadme))
        /\ vrc = 0 => ValidatePlugins(NamesOfRepository(repo_root), repo_root) = <<>>

====
